---- MODULE Spec2Model ----
(***************************************************************************)
(* Model of the baremetalisp early-boot kernel:                            *)
(*   kernel/src/aarch64/lock.rs  - LockVar/SpinLock and BakeryTicket       *)
(*   kernel/src/aarch64/mmu.rs   - Addr::init, TTable, mmu::init, set_regs *)
(*   kernel/src/lib.rs           - entry, init_master, init_slave          *)
(* Each subsystem has its own specification over the shared variables; the *)
(* variables of the other subsystems stay at their initial values.         *)
(***************************************************************************)
EXTENDS Integers, Sequences, FiniteSets, TLC

VARIABLES
    \* ---- lock.rs: LockVar / SpinLock --------------------------------
    lockvar,    \* LockVar.var, the lock word
    spc,        \* per core: position inside lock() / critical section / drop()
    event,      \* per core: the WFE event register
    monitor,    \* per core: exclusive monitor armed on the lock word (ldaxr)
    rd,         \* per core: value read by ldaxr in test_and_set
    shared,     \* the u64 protected by the lock
    tmp,        \* per core: value of shared loaded inside the critical section
    sb,         \* per core: store to shared issued but not yet visible to the
                \* other cores (0: none)
    iter,       \* acquire/increment/release cycles completed by the cores
    \* ---- lock.rs: BakeryTicket / BakeryLock -------------------------
    entering,   \* BakeryTicket.entering
    number,     \* BakeryTicket.number
    bpc,        \* per core: position inside BakeryLock::new
    bmax,       \* per core: local `max`
    bidx,       \* per core: loop index (max scan, then wait scan)
    taken,      \* per core: tickets taken during the current call of lock()
    scans,      \* per core: completed `for i in 0..NUM_CPU` wait scans
    \* ---- lib.rs / mmu.rs: boot sequence -----------------------------
    pc,         \* per core: position inside entry()
    MEMORY_MAP, \* the static Addr
    mm_writes,  \* per core: how many times the core ran MEMORY_MAP.init()
    free_mem_start, \* linker symbol __free_mem_start
    el,         \* current exception level of the cores
    mmfr,       \* ID_AA64MMFR0_EL1 fields [parange, tgran64]
    syms,       \* the other linker symbols (__ram_start, __data_start, ...)
    tables,     \* per table: the TTable handle, its level 2 entries and the
                \* map/unmap calls made on it so far
    built,      \* translation tables completely constructed so far
    mair_tcr,   \* per core: MAIR and TCR registers written
    calls,      \* per core: the functions called from entry() so far, the
                \* ERROR lines of mmu::init and the panic message
    no_cache_ptr, \* per core: address returned by get_no_cache (0: not called)
    ttbr,       \* per core: translation table base registers written
    sctlr_m,    \* per core: ELs whose SCTLR.M has been set
    \* ---- mmu.rs: TTable ---------------------------------------------
    tt,         \* the TTable handle [addr, num_lv2, num_lv3], or NoTable
    tt_lv2,     \* level 2 entries (index -> word), zero entries left out
    tt_lv3,     \* level 3 entries (index -> word), zero entries left out
    last,       \* the last TTable operation and its arguments
    \* ---- mmu.rs: update_sctlr ---------------------------------------
    sctlr_val,  \* the SCTLR of one EL of one core
    sctlr_rd,   \* the value the last `mrs sctlr_elx` read
    sctlr_wr,   \* which function wrote the register: "none", "elx", "el1"
    \* ---- lib.rs: panic handler --------------------------------------
    panicked    \* panic message once panic!() ran, "" before

spinVars == <<lockvar, spc, event, monitor, rd, shared, tmp, sb, iter>>
bakeryVars == <<entering, number, bpc, bmax, bidx, taken, scans>>
bootVars == <<pc, MEMORY_MAP, mm_writes, free_mem_start, el, mmfr, syms, tables, built,
              ttbr, sctlr_m, mair_tcr, calls, no_cache_ptr>>
ttVars == <<tt, tt_lv2, tt_lv3, last>>
sctlrVars == <<sctlr_val, sctlr_rd, sctlr_wr>>
vars == <<spinVars, bakeryVars, bootVars, ttVars, sctlrVars, panicked>>

----------------------------------------------------------------------------
(* Bounds of the model. *)

\* cores contending for the spinlock
SpinCores == 2
\* acquire/increment/release cycles the cores run in total
SpinIters == 3
\* cores that call BakeryTicket::lock
BakeryCores == 2
\* largest ticket number[c] the model lets a core take
MaxTicket == 3

(* Program constants. *)

\* driver::topology::CORE_COUNT (4 on the Allwinner A64 and in the spec's scenarios)
NUM_CPU == 4
\* mmu.rs:99
PAGESIZE == 65536
\* entries of one 64 KiB table (mmu.rs:354,357,373,394)
ENTRIES == 8192
\* mmu.rs:15-29
FIRM_LV2_TABLE_NUM == 1
FIRM_LV3_TABLE_NUM == 8
KERN_TTBR0_LV2_TABLE_NUM == 1
KERN_TTBR0_LV3_TABLE_NUM == 8
KERN_TTBR1_LV2_TABLE_NUM == 1
KERN_TTBR1_LV3_TABLE_NUM == 4
\* driver/device/allwinner/memory.rs:5-8
ROM_START == 0
ROM_END == 65536
SRAM_START == 65536
SRAM_END == 344064
\* driver/device/allwinner/memory.rs:3-4
DEVICE_MEM_START == 16777216
DEVICE_MEM_END == 33554432

----------------------------------------------------------------------------
(* 64-bit words are sets of bit positions: | is \cup, & is \cap.           *)

Zero == {}

Pow2(n) == 2 ^ n

\* the word holding the natural number n (n < 2^31)
Bits(n) == { i \in 0..30 : (n \div Pow2(i)) % 2 = 1 }

RECURSIVE SumPow(_, _)
SumPow(S, lo) ==
    IF S = {} THEN 0
    ELSE LET i == CHOOSE x \in S : TRUE
         IN Pow2(i - lo) + SumPow(S \ {i}, lo)

\* (w >> lo) & (2^width - 1), as a number
Field(w, lo, width) == SumPow(w \cap (lo..(lo + width - 1)), lo)

----------------------------------------------------------------------------
(* lock.rs: LockVar and SpinLock                                           *)

SCores == 0..(SpinCores - 1)

\* test_and_set's result `rd == 0` with rd = old & 1 (lock.rs:115,123)
test_and_set_result(old) == (old % 2) = 0

\* cpu::send_event (SEV): the event register of every core is set
send_event(ev) == [c \in SCores |-> TRUE]

\* the last statement of SpinLock::drop, `cpu::send_event()` (lock.rs:44)
DropMutNoSendEvent(ev) == ev
SpinLock_drop_wake(ev) == send_event(ev)

\* stlxr writes (status 0) only while the exclusive monitor armed by the
\* ldaxr is still set; otherwise `cbnz 1b` retries (lock.rs:113-114)
StlxrMutIgnoresMonitor(m) == TRUE
stlxr_succeeds(m) == m

\* a store to the lock word by core c clears the exclusive monitor of every
\* core; a core losing its monitor gets a WFE wake-up event
StoreClears(c) ==
    /\ monitor' = [d \in SCores |-> FALSE]
    /\ event' = [d \in SCores |-> event[d] \/ (d # c /\ monitor[d])]

SpinInit ==
    /\ lockvar = 0
    /\ spc = [c \in SCores |-> "idle"]
    /\ event \in [SCores -> BOOLEAN]
    /\ monitor = [c \in SCores |-> FALSE]
    /\ rd = [c \in SCores |-> 0]
    /\ shared = 0
    /\ tmp = [c \in SCores |-> 0]
    /\ sb = [c \in SCores |-> 0]
    /\ iter = 0

\* LockVar::lock -> SpinLock::new, and each turn of its `loop`:
\* `if 0 == volatile_load(n)`; on nonzero fall through to wait_event
SpinLock_new_load(c) ==
    /\ \/ /\ spc[c] = "idle"
          /\ iter + Cardinality({d \in SCores : spc[d] # "idle"}) < SpinIters
       \/ spc[c] = "load"
    /\ spc' = [spc EXCEPT ![c] = IF lockvar = 0 THEN "ldaxr" ELSE "wfe"]
    /\ UNCHANGED <<lockvar, event, monitor, rd, shared, tmp, sb, iter>>

\* test_and_set: ldaxr
test_and_set_ldaxr(c) ==
    /\ spc[c] = "ldaxr"
    /\ rd' = [rd EXCEPT ![c] = lockvar]
    /\ monitor' = [monitor EXCEPT ![c] = TRUE]
    /\ spc' = [spc EXCEPT ![c] = "stlxr"]
    /\ UNCHANGED <<lockvar, event, shared, tmp, sb, iter>>

\* test_and_set: stlxr; cbnz 1b; and rd, old, #1; rd == 0 (the register is
\* dead afterwards; the model clears it)
test_and_set_stlxr(c) ==
    /\ spc[c] = "stlxr"
    /\ sb[c] = 0
    /\ IF stlxr_succeeds(monitor[c])
       THEN /\ lockvar' = 1
            /\ StoreClears(c)
            /\ spc' = [spc EXCEPT ![c] =
                          IF test_and_set_result(rd[c]) THEN "cs_load" ELSE "wfe"]
       ELSE /\ spc' = [spc EXCEPT ![c] = "ldaxr"]
            /\ UNCHANGED <<lockvar, monitor, event>>
    /\ rd' = [rd EXCEPT ![c] = 0]
    /\ UNCHANGED <<shared, tmp, sb, iter>>

\* cpu::wait_event (WFE): continues when the event register is set, clearing it
wait_event(c) ==
    /\ spc[c] = "wfe"
    /\ event[c]
    /\ event' = [event EXCEPT ![c] = FALSE]
    /\ spc' = [spc EXCEPT ![c] = "load"]
    /\ UNCHANGED <<lockvar, monitor, rd, shared, tmp, sb, iter>>

\* critical section: load the shared u64 (a core reads its own latest store)
CsLoad(c) ==
    /\ spc[c] = "cs_load"
    /\ tmp' = [tmp EXCEPT ![c] = IF sb[c] # 0 THEN sb[c] ELSE shared]
    /\ spc' = [spc EXCEPT ![c] = "cs_store"]
    /\ UNCHANGED <<lockvar, event, monitor, rd, shared, sb, iter>>

\* ... and store it back incremented, a plain store: it is issued here and
\* becomes visible to the other cores at store_visible; the guard is dropped
\* next
CsStore(c) ==
    /\ spc[c] = "cs_store"
    /\ sb[c] = 0
    /\ sb' = [sb EXCEPT ![c] = tmp[c] + 1]
    /\ tmp' = [tmp EXCEPT ![c] = 0]
    /\ spc' = [spc EXCEPT ![c] = "drop"]
    /\ UNCHANGED <<lockvar, event, monitor, rd, shared, iter>>

\* the store of the critical section reaches memory. ARMv8 orders two plain
\* stores of one core to different addresses only through a barrier or a
\* store-release between them: SpinLock::drop has none before `*self.lock = 0`
\* (the dmb_st comes after it), the stlxr of the next test_and_set is a
\* store-release
store_visible(c) ==
    /\ sb[c] # 0
    /\ shared' = sb[c]
    /\ sb' = [sb EXCEPT ![c] = 0]
    /\ UNCHANGED <<lockvar, spc, event, monitor, rd, tmp, iter>>

\* SpinLock::drop: *self.lock = 0
SpinLock_drop_store(c) ==
    /\ spc[c] = "drop"
    /\ lockvar' = 0
    /\ StoreClears(c)
    /\ spc' = [spc EXCEPT ![c] = "sev"]
    /\ UNCHANGED <<rd, shared, tmp, sb, iter>>

\* SpinLock::drop: cpu::dmb_st(); cpu::send_event(). The barrier orders the
\* store of 0 before the event; the store has already been performed here.
SpinLock_drop_sev(c) ==
    /\ spc[c] = "sev"
    /\ event' = SpinLock_drop_wake(event)
    /\ iter' = iter + 1
    /\ spc' = [spc EXCEPT ![c] = "idle"]
    /\ UNCHANGED <<lockvar, monitor, rd, shared, tmp, sb>>

SpinFrame == UNCHANGED <<bakeryVars, bootVars, ttVars, sctlrVars, panicked>>

SpinStep(c) ==
    \/ SpinLock_new_load(c) /\ SpinFrame
    \/ test_and_set_ldaxr(c) /\ SpinFrame
    \/ test_and_set_stlxr(c) /\ SpinFrame
    \/ wait_event(c) /\ SpinFrame
    \/ CsLoad(c) /\ SpinFrame
    \/ CsStore(c) /\ SpinFrame
    \/ store_visible(c) /\ SpinFrame
    \/ SpinLock_drop_store(c) /\ SpinFrame
    \/ SpinLock_drop_sev(c) /\ SpinFrame

----------------------------------------------------------------------------
(* lock.rs: BakeryTicket and BakeryLock                                    *)

\* cores that call BakeryTicket::lock (distinct indices below NUM_CPU)
BCores == 0..(BakeryCores - 1)
Cpus == 0..(NUM_CPU - 1)

\* (a, i) < (b, j) on tuples (lock.rs:92)
TupleLess(a, i, b, j) == a < b \/ (a = b /\ i < j)

BakeryInit ==
    /\ entering = [i \in Cpus |-> FALSE]
    /\ number = [i \in Cpus |-> 0]
    /\ bpc = [c \in BCores |-> "call"]
    /\ bmax = [c \in BCores |-> 0]
    /\ bidx = [c \in BCores |-> 0]
    /\ taken = [c \in BCores |-> 0]
    /\ scans = [c \in BCores |-> 0]

\* BakeryTicket::lock -> BakeryLock::new, `let core = ...`
BakeryTicket_lock(c) ==
    /\ bpc[c] = "call"
    /\ bpc' = [bpc EXCEPT ![c] = "set_entering"]
    /\ taken' = [taken EXCEPT ![c] = 0]
    /\ UNCHANGED <<entering, number, bmax, bidx, scans>>

\* top of `loop`: t.entering[core] = true; let mut max = 0
Bakery_set_entering(c) ==
    /\ bpc[c] = "set_entering"
    /\ entering' = [entering EXCEPT ![c] = TRUE]
    /\ bmax' = [bmax EXCEPT ![c] = 0]
    /\ bidx' = [bidx EXCEPT ![c] = 0]
    /\ bpc' = [bpc EXCEPT ![c] = "max_scan"]
    /\ UNCHANGED <<number, taken, scans>>

\* for v in &t.number { if max < *v { max = *v } }: one load per step
Bakery_max_scan(c) ==
    /\ bpc[c] = "max_scan"
    /\ bidx[c] < NUM_CPU
    /\ bmax' = [bmax EXCEPT ![c] =
                  IF bmax[c] < number[bidx[c]] THEN number[bidx[c]] ELSE bmax[c]]
    /\ bidx' = [bidx EXCEPT ![c] = bidx[c] + 1]
    /\ bpc' = [bpc EXCEPT ![c] = IF bidx[c] + 1 = NUM_CPU THEN "take" ELSE "max_scan"]
    /\ UNCHANGED <<entering, number, taken, scans>>

\* t.number[core] = 1 + max (tickets are capped at MaxTicket in the model)
Bakery_take(c) ==
    /\ bpc[c] = "take"
    /\ 1 + bmax[c] <= MaxTicket
    /\ number' = [number EXCEPT ![c] = 1 + bmax[c]]
    /\ taken' = [taken EXCEPT ![c] = taken[c] + 1]
    /\ bpc' = [bpc EXCEPT ![c] = "clear_entering"]
    /\ UNCHANGED <<entering, bmax, bidx, scans>>

\* t.entering[core] = false
Bakery_clear_entering(c) ==
    /\ bpc[c] = "clear_entering"
    /\ entering' = [entering EXCEPT ![c] = FALSE]
    /\ bpc' = [bpc EXCEPT ![c] = "dmb"]
    /\ UNCHANGED <<number, bmax, bidx, taken, scans>>

\* cpu::dmb(); then `for i in 0..NUM_CPU` starts
Bakery_dmb(c) ==
    /\ bpc[c] = "dmb"
    /\ bidx' = [bidx EXCEPT ![c] = 0]
    /\ bpc' = [bpc EXCEPT ![c] = "wait_entering"]
    /\ UNCHANGED <<entering, number, bmax, taken, scans>>

\* while t.entering[i] {}: leaves the loop on reading false
Bakery_wait_entering(c) ==
    /\ bpc[c] = "wait_entering"
    /\ ~entering[bidx[c]]
    /\ bpc' = [bpc EXCEPT ![c] = "wait_number"]
    /\ UNCHANGED <<entering, number, bmax, bidx, taken, scans>>

\* the position after the body of `for i` for index i: the next index, or,
\* when i was the last one, the end of the body of `loop`, which has no
\* return and no break: control goes back to its top (lock.rs:77,94)
AfterIndex(c) ==
    [bpc EXCEPT ![c] = IF bidx[c] + 1 = NUM_CPU THEN "set_entering" ELSE "wait_entering"]

Bakery_next_index(c) ==
    /\ bpc' = AfterIndex(c)
    /\ bidx' = [bidx EXCEPT ![c] = bidx[c] + 1]
    /\ scans' = [scans EXCEPT ![c] = IF bidx[c] + 1 = NUM_CPU THEN scans[c] + 1 ELSE scans[c]]

\* while t.number[i] != 0 && ...: first operand, a load of number[i]
Bakery_wait_number(c) ==
    /\ bpc[c] = "wait_number"
    /\ IF number[bidx[c]] # 0
       THEN /\ bpc' = [bpc EXCEPT ![c] = "wait_order"]
            /\ UNCHANGED <<bidx, scans>>
       ELSE Bakery_next_index(c)
    /\ UNCHANGED <<entering, number, bmax, taken>>

\* ... (t.number[i], i) < (t.number[core], core): second load of number[i]
Bakery_wait_order(c) ==
    /\ bpc[c] = "wait_order"
    /\ IF TupleLess(number[bidx[c]], bidx[c], number[c], c)
       THEN /\ bpc' = [bpc EXCEPT ![c] = "wait_number"]
            /\ UNCHANGED <<bidx, scans>>
       ELSE Bakery_next_index(c)
    /\ UNCHANGED <<entering, number, bmax, taken>>

BakeryFrame == UNCHANGED <<spinVars, bootVars, ttVars, sctlrVars, panicked>>

BakeryStep(c) ==
    \/ BakeryTicket_lock(c) /\ BakeryFrame
    \/ Bakery_set_entering(c) /\ BakeryFrame
    \/ Bakery_max_scan(c) /\ BakeryFrame
    \/ Bakery_take(c) /\ BakeryFrame
    \/ Bakery_clear_entering(c) /\ BakeryFrame
    \/ Bakery_dmb(c) /\ BakeryFrame
    \/ Bakery_wait_entering(c) /\ BakeryFrame
    \/ Bakery_wait_number(c) /\ BakeryFrame
    \/ Bakery_wait_order(c) /\ BakeryFrame

----------------------------------------------------------------------------
(* mmu.rs: the memory map planner, Addr::init                              *)

FIRM_TABLE_NUM == FIRM_LV2_TABLE_NUM + FIRM_LV3_TABLE_NUM
KERN_TTBR0_TABLE_NUM == KERN_TTBR0_LV2_TABLE_NUM + KERN_TTBR0_LV3_TABLE_NUM
KERN_TTBR1_TABLE_NUM == KERN_TTBR1_LV2_TABLE_NUM + KERN_TTBR1_LV3_TABLE_NUM

\* static mut MEMORY_MAP: every field 0 (mmu.rs:31-51)
AddrZero ==
    [no_cache_start |-> 0, no_cache_end |-> 0,
     tt_firm_start |-> 0, tt_firm_end |-> 0,
     tt_el1_ttbr0_start |-> 0, tt_el1_ttbr0_end |-> 0,
     tt_el1_ttbr1_start |-> 0, tt_el1_ttbr1_end |-> 0,
     rom_start |-> 0, rom_end |-> 0, sram_start |-> 0, sram_end |-> 0,
     stack_size |-> 0,
     stack_el1_end |-> 0, stack_el1_start |-> 0,
     stack_el0_end |-> 0, stack_el0_start |-> 0,
     el0_heap_start |-> 0, el0_heap_end |-> 0]

\* Addr::init(&mut self), statement by statement; fs is get_free_mem_start().
\* Every field of self is assigned.
AddrInitMutHeapOverStack(self, fs) ==
    LET no_cache_end == fs + PAGESIZE * NUM_CPU
        tt_firm_end == no_cache_end + PAGESIZE * FIRM_TABLE_NUM
        tt_el1_ttbr0_end == tt_firm_end + PAGESIZE * KERN_TTBR0_TABLE_NUM
        tt_el1_ttbr1_end == tt_el1_ttbr0_end + PAGESIZE * KERN_TTBR1_TABLE_NUM
        stack_size == 32 * PAGESIZE
        stack_size_total == stack_size * NUM_CPU
        stack_el1_start == tt_el1_ttbr1_end + stack_size_total
        stack_el0_start == stack_el1_start + stack_size_total
    IN  [self EXCEPT
         !.no_cache_start = fs, !.no_cache_end = no_cache_end,
         !.tt_firm_start = no_cache_end, !.tt_firm_end = tt_firm_end,
         !.tt_el1_ttbr0_start = tt_firm_end, !.tt_el1_ttbr0_end = tt_el1_ttbr0_end,
         !.tt_el1_ttbr1_start = tt_el1_ttbr0_end, !.tt_el1_ttbr1_end = tt_el1_ttbr1_end,
         !.rom_start = ROM_START, !.rom_end = ROM_END,
         !.sram_start = SRAM_START, !.sram_end = SRAM_END,
         !.stack_size = stack_size,
         !.stack_el1_end = tt_el1_ttbr1_end, !.stack_el1_start = stack_el1_start,
         !.stack_el0_end = stack_el1_start, !.stack_el0_start = stack_el0_start,
         !.el0_heap_start = stack_el1_start,
         !.el0_heap_end = stack_el1_start + PAGESIZE * 1024]

\* a planner that goes on from where the previous run ended
AddrInitMutContinues(self, fs) ==
    LET base == IF self.no_cache_end > fs THEN self.no_cache_end ELSE fs
    IN  [self EXCEPT
         !.no_cache_start = base, !.no_cache_end = base + PAGESIZE * NUM_CPU]

Addr_init(self, fs) ==
    LET no_cache_start == fs
        no_cache_end == no_cache_start + PAGESIZE * NUM_CPU
        tt_firm_start == no_cache_end
        tt_firm_end == tt_firm_start + PAGESIZE * FIRM_TABLE_NUM
        tt_el1_ttbr0_start == tt_firm_end
        tt_el1_ttbr0_end == tt_el1_ttbr0_start + PAGESIZE * KERN_TTBR0_TABLE_NUM
        tt_el1_ttbr1_start == tt_el1_ttbr0_end
        tt_el1_ttbr1_end == tt_el1_ttbr1_start + PAGESIZE * KERN_TTBR1_TABLE_NUM
        stack_size == 32 * PAGESIZE
        stack_size_total == stack_size * NUM_CPU
        stack_el1_end == tt_el1_ttbr1_end
        stack_el1_start == stack_el1_end + stack_size_total
        stack_el0_end == stack_el1_start
        stack_el0_start == stack_el0_end + stack_size_total
        el0_heap_start == stack_el0_start
        el0_heap_end == el0_heap_start + PAGESIZE * 1024
    IN  [self EXCEPT
         !.no_cache_start = no_cache_start, !.no_cache_end = no_cache_end,
         !.tt_firm_start = tt_firm_start, !.tt_firm_end = tt_firm_end,
         !.tt_el1_ttbr0_start = tt_el1_ttbr0_start,
         !.tt_el1_ttbr0_end = tt_el1_ttbr0_end,
         !.tt_el1_ttbr1_start = tt_el1_ttbr1_start,
         !.tt_el1_ttbr1_end = tt_el1_ttbr1_end,
         !.rom_start = ROM_START, !.rom_end = ROM_END,
         !.sram_start = SRAM_START, !.sram_end = SRAM_END,
         !.stack_size = stack_size,
         !.stack_el1_end = stack_el1_end, !.stack_el1_start = stack_el1_start,
         !.stack_el0_end = stack_el0_end, !.stack_el0_start = stack_el0_start,
         !.el0_heap_start = el0_heap_start, !.el0_heap_end = el0_heap_end]

----------------------------------------------------------------------------
(* mmu.rs: TTable::new, TTable::map, TTable::unmap                         *)

NoTable == [addr |-> 0, num_lv2 |-> 0, num_lv3 |-> 0]
NoOp == [op |-> "none", va |-> Zero, pa |-> Zero, flag |-> Zero, before |-> Zero]

\* a table is kept as the function from the indices of its nonzero entries
EmptyTable == [i \in {} |-> Zero]
At(t, i) == IF i \in DOMAIN t THEN t[i] ELSE Zero
PutMutClearsRest(t, i, w) == [j \in {i} |-> w]
Put(t, i, w) ==
    IF w = Zero
    THEN [j \in DOMAIN t \ {i} |-> t[j]]
    ELSE [j \in DOMAIN t \cup {i} |-> IF j = i THEN w ELSE t[j]]

\* (tt_addr, num_lv2, num_lv3) of the callers of TTable::new (mmu.rs:545,
\* 768-772, 863-867) at the A64 layout, and a table without level 2 storage
TTConfigs ==
    {[addr |-> 1074528256, num_lv2 |-> FIRM_LV2_TABLE_NUM, num_lv3 |-> FIRM_LV3_TABLE_NUM],
     [addr |-> 1075707904, num_lv2 |-> KERN_TTBR1_LV2_TABLE_NUM, num_lv3 |-> KERN_TTBR1_LV3_TABLE_NUM],
     [addr |-> 1075707904, num_lv2 |-> 0, num_lv3 |-> 2]}

\* what the memory under a table may hold before TTable::new
Garbage == {EmptyTable, [i \in {0, 7, 16384} |-> {0, 5, 63}]}

\* virtual addresses: 0x40000000, 0x40230000, 0xC0000000, 0x1_0000_0000
VAs == {Bits(1073741824), Bits(1076035584), Bits(1073741824) \cup {31}, {32}}
\* physical addresses: 0x40000000, 0x40231234
PAs == {Bits(1073741824), Bits(1076040244)}

FLAG_L3_XN == {54}
FLAG_L3_PXN == {53}
FLAG_L3_AF == {10}
FLAG_L3_NS == {5}
FLAG_L3_OSH == {9}
FLAG_L3_ISH == {8, 9}
FLAG_L3_SH_RW_N == {}
FLAG_L3_SH_RW_RW == {6}
FLAG_L3_SH_R_N == {7}
FLAG_L3_SH_R_R == {6, 7}
FLAG_L3_ATTR_MEM == {}
FLAG_L3_ATTR_DEV == {2}
FLAG_L3_ATTR_NC == {3}

\* the flag words of init_firm (mmu.rs:560 and mmu.rs:643-650)
Flags ==
    {FLAG_L3_AF \cup FLAG_L3_ISH \cup FLAG_L3_SH_RW_N \cup FLAG_L3_ATTR_MEM \cup {0, 1},
     FLAG_L3_XN \cup FLAG_L3_PXN \cup FLAG_L3_AF \cup FLAG_L3_ISH \cup FLAG_L3_SH_RW_N
        \cup FLAG_L3_ATTR_MEM \cup FLAG_L3_ATTR_NC \cup {0, 1}}

\* lv2idx = (vm_addr >> 29) & 8191, lv3idx = (vm_addr >> 16) & 8191
Lv2Idx(va) == Field(va, 29, 13)
Lv3Idx(va) == Field(va, 16, 13)

\* idx = lv2idx * 8192 + lv3idx (mmu.rs:394,407)
Lv3SlotMutNoLv2(va) == Lv3Idx(va)
Lv3Slot(va) == Lv2Idx(va) * ENTRIES + Lv3Idx(va)

\* `if lv2idx >= self.num_lv3 { panic!(..) }` (mmu.rs:388,402)
OutOfRangeMutOffByOne(va, t) == Lv2Idx(va) > t.num_lv3
OutOfRange(va, t) == Lv2Idx(va) >= t.num_lv3

\* e = phy_addr & !((1 << 16) - 1) | flag (mmu.rs:393)
MapEntry(pa, flag) == (pa \ (0..15)) \cup flag

\* address of tt_lv3[k]: the level 3 slice starts PAGESIZE * num_lv2 bytes
\* after tt_addr, entries are 8 bytes (mmu.rs:356-357)
Lv3Addr(t, k) == t.addr + PAGESIZE * t.num_lv2 + 8 * k

\* TTable::new: both slices zeroed, then for i in 0..(8192 * num_lv2), until
\* i >= num_lv3: tt_lv2[i] = &tt_lv3[i * 8192] | 0b11 (mmu.rs:360-374)
NewLv2MutNoBreak(t) ==
    [i \in 0..(ENTRIES * t.num_lv2 - 1) |-> Bits(Lv3Addr(t, i * ENTRIES)) \cup {0, 1}]
NewLv2(t) ==
    [i \in {j \in 0..(ENTRIES * t.num_lv2 - 1) : j < t.num_lv3}
        |-> Bits(Lv3Addr(t, i * ENTRIES)) \cup {0, 1}]

\* `for e in tt_lv3.iter_mut() { *e = 0 }`: whatever the memory held before
NewLv3(t, old) == EmptyTable

TTInit ==
    /\ tt = NoTable
    /\ tt_lv2 \in Garbage
    /\ tt_lv3 \in Garbage
    /\ last = NoOp

TTable_new(t) ==
    /\ panicked = ""
    /\ tt' = t
    /\ tt_lv2' = NewLv2(t)
    /\ tt_lv3' = NewLv3(t, tt_lv3)
    /\ last' = [NoOp EXCEPT !.op = "new"]
    /\ UNCHANGED panicked

TTable_map(va, pa, flag) ==
    /\ panicked = ""
    /\ tt # NoTable
    /\ last' = [op |-> "map", va |-> va, pa |-> pa, flag |-> flag,
                before |-> At(tt_lv3, Lv3Slot(va))]
    /\ IF OutOfRange(va, tt)
       THEN /\ panicked' = "memory map error"
            /\ UNCHANGED <<tt_lv2, tt_lv3>>
       ELSE /\ tt_lv3' = Put(tt_lv3, Lv3Slot(va), MapEntry(pa, flag))
            /\ UNCHANGED <<tt_lv2, panicked>>
    /\ UNCHANGED tt

TTable_unmap(va) ==
    /\ panicked = ""
    /\ tt # NoTable
    /\ last' = [op |-> "unmap", va |-> va, pa |-> Zero, flag |-> Zero,
                before |-> At(tt_lv3, Lv3Slot(va))]
    /\ IF OutOfRange(va, tt)
       THEN /\ panicked' = "memory unmap error"
            /\ UNCHANGED <<tt_lv2, tt_lv3>>
       ELSE /\ tt_lv3' = Put(tt_lv3, Lv3Slot(va), Zero)
            /\ UNCHANGED <<tt_lv2, panicked>>
    /\ UNCHANGED tt

----------------------------------------------------------------------------
(* mmu.rs: init_firm, init_el2, init_el3, init_el1 - the contents of the   *)
(* firmware, TTBR0 and TTBR1 tables                                        *)

\* The addresses of boot are below 2^31 and are kept as numbers; the index
\* computations of map/unmap on a number:
\* lv2idx = (vm_addr >> 29) & 8191, lv3idx = (vm_addr >> 16) & 8191
Lv2IdxNMutShift28(a) == (a \div 268435456) % ENTRIES
Lv2IdxN(a) == (a \div 536870912) % ENTRIES
Lv3IdxN(a) == (a \div PAGESIZE) % ENTRIES
SlotN(a) == Lv2IdxN(a) * ENTRIES + Lv3IdxN(a)

\* the flag words of init_firm and init_el1
FlagRom == FLAG_L3_AF \cup FLAG_L3_ISH \cup FLAG_L3_SH_R_N \cup FLAG_L3_ATTR_MEM \cup {0, 1}
FlagSram == FLAG_L3_AF \cup FLAG_L3_ISH \cup FLAG_L3_SH_RW_N \cup FLAG_L3_ATTR_MEM \cup {0, 1}
FlagText == FLAG_L3_AF \cup FLAG_L3_ISH \cup FLAG_L3_SH_R_R \cup FLAG_L3_ATTR_MEM \cup {0, 1}
\* .data, .bss, EL0 stacks, EL0 heap
FlagData ==
    FLAG_L3_XN \cup FLAG_L3_PXN \cup FLAG_L3_AF \cup FLAG_L3_ISH \cup FLAG_L3_SH_RW_RW
        \cup FLAG_L3_ATTR_MEM \cup {0, 1}
\* firmware stack, no-cache pages, EL1 stacks
FlagStack ==
    FLAG_L3_XN \cup FLAG_L3_PXN \cup FLAG_L3_AF \cup FLAG_L3_ISH \cup FLAG_L3_SH_RW_N
        \cup FLAG_L3_ATTR_MEM \cup {0, 1}
\* the memory of the translation tables; page 0 in init_el2
FlagTT ==
    FLAG_L3_XN \cup FLAG_L3_PXN \cup FLAG_L3_AF \cup FLAG_L3_ISH \cup FLAG_L3_SH_RW_N
        \cup FLAG_L3_ATTR_MEM \cup FLAG_L3_ATTR_NC \cup {0, 1}
FlagDevMutTwoAttr ==
    FLAG_L3_NS \cup FLAG_L3_XN \cup FLAG_L3_PXN \cup FLAG_L3_AF \cup FLAG_L3_OSH
        \cup FLAG_L3_SH_RW_RW \cup FLAG_L3_ATTR_DEV \cup FLAG_L3_ATTR_NC \cup {0, 1}
FlagDev ==
    FLAG_L3_NS \cup FLAG_L3_XN \cup FLAG_L3_PXN \cup FLAG_L3_AF \cup FLAG_L3_OSH
        \cup FLAG_L3_SH_RW_RW \cup FLAG_L3_ATTR_DEV \cup {0, 1}

\* `while a < end { table.map(a, a, flag); a += PAGESIZE; }` from a = lo
MapRange(lo, hi, flag) == [op |-> "map", lo |-> lo, hi |-> hi, flag |-> flag]
\* table.map(a, a, flag)
MapPageMutTwoPages(a, flag) ==
    [op |-> "map", lo |-> a, hi |-> a + PAGESIZE + 1, flag |-> flag]
MapPage(a, flag) == [op |-> "map", lo |-> a, hi |-> a + 1, flag |-> flag]
\* table.unmap(a)
UnmapPage(a) == [op |-> "unmap", lo |-> a, hi |-> a + 1, flag |-> Zero]

\* `for i in 0..NUM_CPU { table.unmap(end + i * addr.stack_size) }`
UnmapGuardsMutPageStride(end, stack_size) ==
    [i \in 1..NUM_CPU |-> UnmapPage(end + (i - 1) * PAGESIZE)]
UnmapGuards(end, stack_size) ==
    [i \in 1..NUM_CPU |-> UnmapPage(end + (i - 1) * stack_size)]

\* the addresses one loop passes to map / unmap
Pages(o) ==
    IF o.lo < o.hi
    THEN {o.lo + k * PAGESIZE : k \in 0..((o.hi - o.lo - 1) \div PAGESIZE)}
    ELSE {}

\* init_firm: the calls on the firmware table, in program order
InitFirmOps(addr, sy) ==
    << MapRange(addr.rom_start, addr.rom_end, FlagRom),
       MapRange(addr.sram_start, addr.sram_end, FlagSram),
       MapRange(sy.ram_start, sy.data_start, FlagText),
       MapRange(sy.data_start, sy.bss_start, FlagData),
       MapRange(sy.bss_start, sy.stack_firm_end, FlagData),
       MapRange(sy.stack_firm_end, sy.stack_firm_start, FlagStack) >>
    \o UnmapGuards(sy.stack_firm_end, addr.stack_size)
    \o << MapRange(addr.no_cache_start, addr.no_cache_end, FlagStack),
          MapRange(addr.tt_firm_start, addr.tt_firm_end, FlagTT),
          MapRange(addr.tt_el1_ttbr0_start, addr.tt_el1_ttbr0_end, FlagTT),
          MapRange(addr.tt_el1_ttbr1_start, addr.tt_el1_ttbr1_end, FlagTT),
          MapRange(DEVICE_MEM_START, DEVICE_MEM_END, FlagDev) >>

\* init_el2: `table.map(0, 0, flag)` after init_firm; init_el3: nothing
InitElOps(e) == IF e = 2 THEN << MapPage(0, FlagTT) >> ELSE << >>

\* init_el1: the calls on table0
InitEl1Ttbr0Ops(addr, sy) ==
    << MapRange(sy.ram_start, sy.data_start, FlagText),
       MapRange(sy.data_start, sy.bss_start, FlagData),
       MapRange(sy.bss_start, sy.stack_firm_end, FlagData),
       MapRange(addr.stack_el0_end, addr.stack_el0_start, FlagData) >>
    \o UnmapGuards(addr.stack_el0_end, addr.stack_size)
    \o << MapRange(addr.el0_heap_start, addr.el0_heap_end, FlagData),
          MapRange(DEVICE_MEM_START, DEVICE_MEM_END, FlagDev) >>

\* init_el1: the calls on table1
InitEl1Ttbr1Ops(addr) ==
    << MapRange(addr.stack_el1_end, addr.stack_el1_start, FlagStack) >>
    \o UnmapGuards(addr.stack_el1_end, addr.stack_size)
    \o << MapRange(addr.tt_el1_ttbr0_start, addr.tt_el1_ttbr0_end, FlagTT),
          MapRange(addr.tt_el1_ttbr1_start, addr.tt_el1_ttbr1_end, FlagTT) >>

\* Runs the calls ops on the table t. The writes are kept as the list of the
\* calls made; a call that panics (lv2idx >= num_lv3) ends the list, cut at
\* the address that panicked.
RECURSIVE RunOps(_, _, _)
RunOps(t, ops, done) ==
    IF ops = << >>
    THEN [log |-> done, panic |-> ""]
    ELSE LET o == Head(ops)
             bad == {p \in Pages(o) : Lv2IdxN(p) >= t.num_lv3}
         IN  IF bad = {}
             THEN RunOps(t, Tail(ops), Append(done, o))
             ELSE LET first == CHOOSE p \in bad : \A q \in bad : p <= q
                  IN  [log |-> Append(done, [o EXCEPT !.hi = first]),
                       panic |-> IF o.op = "map" THEN "memory map error"
                                                 ELSE "memory unmap error"]

\* call o wrote the level 3 entry of index s: its k-th address has index s
OpPage(o, s) == o.lo + (s - SlotN(o.lo)) * PAGESIZE
Covers(o, s) ==
    /\ o.lo < o.hi
    /\ s >= SlotN(o.lo)
    /\ OpPage(o, s) < o.hi
    /\ SlotN(OpPage(o, s)) = s

\* the level 3 entry of index s after the calls of log on a zeroed table:
\* what the last call that wrote it left there
L3Entry(log, s) ==
    LET hits == {i \in 1..Len(log) : Covers(log[i], s)}
    IN  IF hits = {} THEN Zero
        ELSE LET i == CHOOSE j \in hits : \A k \in hits : k <= j
                 o == log[i]
             IN  IF o.op = "unmap" THEN Zero
                 ELSE MapEntry(Bits(OpPage(o, s)), o.flag)

NoTTable == [tt |-> NoTable, lv2 |-> EmptyTable, log |-> << >>]

\* TTable::new(tt_addr, num_lv2, num_lv3) followed by the calls ops
BuildTable(t, ops) ==
    LET r == RunOps(t, ops, << >>)
    IN  [table |-> [tt |-> t, lv2 |-> NewLv2(t), log |-> r.log], panic |-> r.panic]

----------------------------------------------------------------------------
(* lib.rs: entry, init_master, init_slave, panic; mmu.rs: init, set_regs,  *)
(* get_no_cache                                                            *)

\* core 0 is the master: driver::topology::core_pos() == 0 (lib.rs:95)
Master == 0

\* values of the linker symbol __free_mem_start (0x40080000, 0x40100000)
FreeStarts == {1074266112, 1074790400}

\* The linker symbols. Text, data and bss lie below the firmware stack, the
\* firmware stack holds stack_size (2 MiB) for each of the NUM_CPU cores
\* ("assume 2MiB stack space per CPU", mmu.rs:704) and ends at or below
\* __free_mem_start. The second layout has no .data pages. The third layout
\* is a kernel linked at the start of the A64's DRAM (0x40000000) with every
\* symbol inside [0x40000000, 0x40080000]: its firmware stack is 256 KiB.
Layouts ==
    {[ram_start |-> 1065615360, data_start |-> 1065746432, bss_start |-> 1065811968,
      stack_firm_end |-> 1065877504, stack_firm_start |-> 1074266112,
      free_mem_start |-> 1074266112],
     [ram_start |-> 1066139648, data_start |-> 1066205184, bss_start |-> 1066205184,
      stack_firm_end |-> 1066336256, stack_firm_start |-> 1074724864,
      free_mem_start |-> 1074790400],
     [ram_start |-> 1073741824, data_start |-> 1073872896, bss_start |-> 1073938432,
      stack_firm_end |-> 1074003968, stack_firm_start |-> 1074266112,
      free_mem_start |-> 1074266112]}

\* exception levels the cores are started at
ELs == {1, 2, 3}

\* ID_AA64MMFR0_EL1: [3:0] PARange and [27:24] TGran64
Mmfrs == {[parange |-> 0, tgran64 |-> 0],
          [parange |-> 1, tgran64 |-> 0],
          [parange |-> 1, tgran64 |-> 15],
          [parange |-> 5, tgran64 |-> 0]}

Tables == {"firm", "ttbr0", "ttbr1"}

\* ttbr | 1 (mmu.rs:720,755,952,953)
Or1(n) == IF n % 2 = 0 THEN n + 1 ELSE n

BootInit ==
    /\ pc = [c \in Cpus |-> "entry"]
    /\ MEMORY_MAP = AddrZero
    /\ mm_writes = [c \in Cpus |-> 0]
    /\ free_mem_start \in FreeStarts
    /\ syms \in {L \in Layouts : L.free_mem_start = free_mem_start}
    /\ el \in ELs
    /\ mmfr \in Mmfrs
    /\ tables = [n \in Tables |-> NoTTable]
    /\ built = {}
    /\ ttbr = [c \in Cpus |-> {}]
    /\ sctlr_m = [c \in Cpus |-> {}]
    /\ mair_tcr = [c \in Cpus |-> {}]
    /\ calls = [c \in Cpus |-> << >>]
    /\ no_cache_ptr = [c \in Cpus |-> 0]

\* what the hardware and the linker fix
bootIn == <<free_mem_start, el, mmfr, syms>>
\* the state of the MMU: tables and registers
bootMmu == <<tables, built, ttbr, sctlr_m, mair_tcr>>

\* core c calls the functions fs, in this order
Called(c, fs) == calls' = [calls EXCEPT ![c] = @ \o fs]

\* #[panic_handler]: prints "kernel panic!", the location and the message,
\* then driver::delays::forever() (lib.rs:108-124)
PanicMutReturns(pcs, c) == [pcs EXCEPT ![c] = "driver_init"]
panic_handler(pcs, c) == [pcs EXCEPT ![c] = "halt"]

\* panic!(msg) on core c, after the calls fs
Panic(c, fs, msg) ==
    /\ panicked' = msg
    /\ pc' = panic_handler(pc, c)
    /\ Called(c, fs \o <<"kernel panic!", msg>>)

\* entry: aarch64::mmu::init_memory_map(), run by every core (lib.rs:93)
init_memory_map(c) ==
    /\ pc[c] = "entry"
    /\ MEMORY_MAP' = Addr_init(MEMORY_MAP, free_mem_start)
    /\ mm_writes' = [mm_writes EXCEPT ![c] = mm_writes[c] + 1]
    /\ pc' = [pc EXCEPT ![c] = "core_pos"]
    /\ Called(c, <<"mmu::init_memory_map">>)
    /\ UNCHANGED <<bootIn, bootMmu, no_cache_ptr, panicked>>

\* get_no_cache: addr.no_cache_start + PAGESIZE * core_pos() (mmu.rs:966-968)
NoCacheMutWordSlots(addr, c) == addr.no_cache_start + 8 * c
NoCacheAddr(addr, c) == addr.no_cache_start + PAGESIZE * c

\* A call of get_no_cache by core c, once the core has populated MEMORY_MAP
\* (the kernel sources hold no caller of it).
get_no_cache(c) ==
    /\ pc[c] = "core_pos"
    /\ no_cache_ptr[c] = 0
    /\ no_cache_ptr' = [no_cache_ptr EXCEPT ![c] = NoCacheAddr(MEMORY_MAP, c)]
    /\ UNCHANGED <<pc, MEMORY_MAP, mm_writes, bootIn, bootMmu, calls, panicked>>

\* entry: if core_pos() == 0 { init_master() } else { init_slave() }
entry_dispatch(c) ==
    /\ pc[c] = "core_pos"
    /\ pc' = [pc EXCEPT ![c] = IF c = Master THEN "init_master" ELSE "set_regs"]
    /\ Called(c, IF c = Master THEN <<"init_master">> ELSE <<"init_slave">>)
    /\ UNCHANGED <<MEMORY_MAP, mm_writes, bootIn, bootMmu, no_cache_ptr, panicked>>

\* init_master: init_cptr_el3 at EL3, driver::early_init (lib.rs:44-48)
init_master_early(c) ==
    /\ pc[c] = "init_master"
    /\ pc' = [pc EXCEPT ![c] = "mmu_init"]
    /\ Called(c, (IF el = 3 THEN <<"cpu::init_cptr_el3">> ELSE << >>)
                 \o <<"driver::early_init">>)
    /\ UNCHANGED <<MEMORY_MAP, mm_writes, bootIn, bootMmu, no_cache_ptr, panicked>>

\* mmu::init: `if b < 1` and `if mmfr & (0xF << 24) != 0` (mmu.rs:477-493)
MmuCheckMutNoGranule(m) == m.parange < 1
mmu_unsupported(m) == m.parange < 1 \/ m.tgran64 # 0

\* the ERROR line of the check that failed (mmu.rs:481,490)
mmu_error_line(m) ==
    IF m.parange < 1 THEN "ERROR: 36 bit address space not supported"
    ELSE "ERROR: 64KiB granule not supported"

\* mmu::init up to the two feature checks (mmu.rs:472-493); None makes
\* init_master panic (lib.rs:50-55)
mmu_init_check(c) ==
    /\ pc[c] = "mmu_init"
    /\ IF mmu_unsupported(mmfr)
       THEN Panic(c, <<"mmu::init", mmu_error_line(mmfr)>>, "failed to initialize MMU")
       ELSE /\ pc' = [pc EXCEPT ![c] = "init_firm"]
            /\ Called(c, <<"mmu::init">>)
            /\ UNCHANGED panicked
    /\ UNCHANGED <<MEMORY_MAP, mm_writes, bootIn, bootMmu, no_cache_ptr>>

\* a table has been constructed: on a panic of map / unmap the core halts
Constructed(c, n, b, next) ==
    /\ tables' = [tables EXCEPT ![n] = b.table]
    /\ IF b.panic = ""
       THEN /\ built' = built \cup {n}
            /\ pc' = [pc EXCEPT ![c] = next]
            /\ UNCHANGED <<panicked, calls>>
       ELSE /\ Panic(c, << >>, b.panic)
            /\ UNCHANGED built

\* init_el2 / init_el3 (mmu.rs:495-499): init_firm builds the firmware table,
\* init_el2 then maps page 0 (mmu.rs:544-702, 729-741)
init_firm(c) ==
    /\ pc[c] = "init_firm"
    /\ Constructed(c, "firm",
          BuildTable([addr |-> MEMORY_MAP.tt_firm_start,
                      num_lv2 |-> FIRM_LV2_TABLE_NUM, num_lv3 |-> FIRM_LV3_TABLE_NUM],
                     InitFirmOps(MEMORY_MAP, syms) \o InitElOps(el)),
          "set_reg_firm")
    /\ UNCHANGED <<MEMORY_MAP, mm_writes, bootIn, ttbr, sctlr_m, mair_tcr, no_cache_ptr>>

\* set_reg_el2 when the current EL is 2, else set_reg_el3: MAIR, TCR, TTBR0
\* and SCTLR of that EL; the EL3 registers are UNDEFINED below EL3, the
\* first msr takes an exception
SetRegFirm(c, next) ==
    IF el = 2
    THEN /\ mair_tcr' = [mair_tcr EXCEPT ![c] = @ \cup {"mair_el2", "tcr_el2"}]
         /\ ttbr' = [ttbr EXCEPT ![c] = @ \cup {<<"ttbr0_el2", Or1(MEMORY_MAP.tt_firm_start)>>}]
         /\ sctlr_m' = [sctlr_m EXCEPT ![c] = @ \cup {2}]
         /\ pc' = [pc EXCEPT ![c] = next]
    ELSE IF el = 3
    THEN /\ mair_tcr' = [mair_tcr EXCEPT ![c] = @ \cup {"mair_el3", "tcr_el3"}]
         /\ ttbr' = [ttbr EXCEPT ![c] = @ \cup {<<"ttbr0_el3", Or1(MEMORY_MAP.tt_firm_start)>>}]
         /\ sctlr_m' = [sctlr_m EXCEPT ![c] = @ \cup {3}]
         /\ pc' = [pc EXCEPT ![c] = next]
    ELSE /\ pc' = [pc EXCEPT ![c] = "exception"]
         /\ UNCHANGED <<ttbr, sctlr_m, mair_tcr>>

\* set_reg_el1(ttbr0, ttbr1) (mmu.rs:928-964)
SetRegEl1(c, next) ==
    /\ mair_tcr' = [mair_tcr EXCEPT ![c] = @ \cup {"mair_el1", "tcr_el1"}]
    /\ ttbr' = [ttbr EXCEPT ![c] = @ \cup {<<"ttbr0_el1", Or1(MEMORY_MAP.tt_el1_ttbr0_start)>>,
                                           <<"ttbr1_el1", Or1(MEMORY_MAP.tt_el1_ttbr1_start)>>}]
    /\ sctlr_m' = [sctlr_m EXCEPT ![c] = @ \cup {1}]
    /\ pc' = [pc EXCEPT ![c] = next]

\* init_el2 / init_el3: set_reg_el2 / set_reg_el3 (mmu.rs:708,742)
init_firm_set_reg(c) ==
    /\ pc[c] = "set_reg_firm"
    /\ SetRegFirm(c, "init_el1_ttbr0")
    /\ UNCHANGED <<MEMORY_MAP, mm_writes, bootIn, tables, built, calls, no_cache_ptr, panicked>>

\* init_el1: table0 (mmu.rs:767-859)
init_el1_ttbr0(c) ==
    /\ pc[c] = "init_el1_ttbr0"
    /\ Constructed(c, "ttbr0",
          BuildTable([addr |-> MEMORY_MAP.tt_el1_ttbr0_start,
                      num_lv2 |-> KERN_TTBR0_LV2_TABLE_NUM,
                      num_lv3 |-> KERN_TTBR0_LV3_TABLE_NUM],
                     InitEl1Ttbr0Ops(MEMORY_MAP, syms)),
          "init_el1_ttbr1")
    /\ UNCHANGED <<MEMORY_MAP, mm_writes, bootIn, ttbr, sctlr_m, mair_tcr, no_cache_ptr>>

\* init_el1: table1 (mmu.rs:861-916)
init_el1_ttbr1(c) ==
    /\ pc[c] = "init_el1_ttbr1"
    /\ Constructed(c, "ttbr1",
          BuildTable([addr |-> MEMORY_MAP.tt_el1_ttbr1_start,
                      num_lv2 |-> KERN_TTBR1_LV2_TABLE_NUM,
                      num_lv3 |-> KERN_TTBR1_LV3_TABLE_NUM],
                     InitEl1Ttbr1Ops(MEMORY_MAP)),
          "set_reg_el1")
    /\ UNCHANGED <<MEMORY_MAP, mm_writes, bootIn, ttbr, sctlr_m, mair_tcr, no_cache_ptr>>

\* init_el1: set_reg_el1 (mmu.rs:920-923); mmu::init returns Some
init_el1_set_reg(c) ==
    /\ pc[c] = "set_reg_el1"
    /\ SetRegEl1(c, "driver_init")
    /\ UNCHANGED <<MEMORY_MAP, mm_writes, bootIn, tables, built, calls, no_cache_ptr, panicked>>

\* init_master: driver::init() (lib.rs:56)
driver_init(c) ==
    /\ pc[c] = "driver_init"
    /\ pc' = [pc EXCEPT ![c] = "match_el"]
    /\ Called(c, <<"driver::init">>)
    /\ UNCHANGED <<MEMORY_MAP, mm_writes, bootIn, bootMmu, no_cache_ptr, panicked>>

\* init_master: match get_current_el() (lib.rs:62-81)
init_master_match_el(c) ==
    /\ pc[c] = "match_el"
    /\ IF el = 3
       THEN /\ pc' = [pc EXCEPT ![c] = "psci_init"]
            /\ UNCHANGED <<panicked, calls>>
       ELSE IF el = 2
       THEN /\ pc' = [pc EXCEPT ![c] = "boot_run"]
            /\ Called(c, <<"print_msg Warning">>)
            /\ UNCHANGED panicked
       ELSE Panic(c, << >>, "execution level is not EL3")
    /\ UNCHANGED <<MEMORY_MAP, mm_writes, bootIn, bootMmu, no_cache_ptr>>

\* the arm of EL3: psci::init() (lib.rs:64)
init_master_psci(c) ==
    /\ pc[c] = "psci_init"
    /\ pc' = [pc EXCEPT ![c] = "init_secure"]
    /\ Called(c, <<"psci::init">>)
    /\ UNCHANGED <<MEMORY_MAP, mm_writes, bootIn, bootMmu, no_cache_ptr, panicked>>

\* the arm of EL3: context::init_secure() (lib.rs:65-66)
init_master_secure(c) ==
    /\ pc[c] = "init_secure"
    /\ pc' = [pc EXCEPT ![c] = "boot_run"]
    /\ Called(c, <<"context::init_secure">>)
    /\ UNCHANGED <<MEMORY_MAP, mm_writes, bootIn, bootMmu, no_cache_ptr, panicked>>

\* both arms: boot::run(); context::init_el2_regs() (lib.rs:67-68, 74-75)
init_master_boot_run(c) ==
    /\ pc[c] = "boot_run"
    /\ pc' = [pc EXCEPT ![c] = "to_el1"]
    /\ Called(c, <<"boot::run", "context::init_el2_regs">>)
    /\ UNCHANGED <<MEMORY_MAP, mm_writes, bootIn, bootMmu, no_cache_ptr, panicked>>

\* el3::el3_to_el1() in the arm of EL3, el2::el2_to_el1() in the arm of EL2
\* (lib.rs:69,76)
init_master_to_el1(c) ==
    /\ pc[c] = "to_el1"
    /\ pc' = [pc EXCEPT ![c] = "el1"]
    /\ Called(c, IF el = 3 THEN <<"el3::el3_to_el1">> ELSE <<"el2::el2_to_el1">>)
    /\ UNCHANGED <<MEMORY_MAP, mm_writes, bootIn, bootMmu, no_cache_ptr, panicked>>

\* init_slave: mmu::set_regs, firmware registers (mmu.rs:457-463)
set_regs(c) ==
    /\ pc[c] = "set_regs"
    /\ SetRegFirm(c, "set_regs_el1")
    /\ Called(c, <<"mmu::set_regs">>)
    /\ UNCHANGED <<MEMORY_MAP, mm_writes, bootIn, tables, built, no_cache_ptr, panicked>>

\* init_slave: mmu::set_regs, set_reg_el1 (mmu.rs:465-468); then
\* driver::delays::forever() (lib.rs:87-88)
set_regs_el1(c) ==
    /\ pc[c] = "set_regs_el1"
    /\ SetRegEl1(c, "forever")
    /\ Called(c, <<"delays::forever">>)
    /\ UNCHANGED <<MEMORY_MAP, mm_writes, bootIn, tables, built, no_cache_ptr, panicked>>

BootFrame == UNCHANGED <<spinVars, bakeryVars, ttVars, sctlrVars>>

BootStep(c) ==
    \/ init_memory_map(c) /\ BootFrame
    \/ entry_dispatch(c) /\ BootFrame
    \/ init_master_early(c) /\ BootFrame
    \/ mmu_init_check(c) /\ BootFrame
    \/ init_firm(c) /\ BootFrame
    \/ init_firm_set_reg(c) /\ BootFrame
    \/ init_el1_ttbr0(c) /\ BootFrame
    \/ init_el1_ttbr1(c) /\ BootFrame
    \/ init_el1_set_reg(c) /\ BootFrame
    \/ driver_init(c) /\ BootFrame
    \/ init_master_match_el(c) /\ BootFrame
    \/ init_master_psci(c) /\ BootFrame
    \/ init_master_secure(c) /\ BootFrame
    \/ init_master_boot_run(c) /\ BootFrame
    \/ init_master_to_el1(c) /\ BootFrame
    \/ set_regs(c) /\ BootFrame
    \/ set_regs_el1(c) /\ BootFrame

----------------------------------------------------------------------------
(* mmu.rs: update_sctlr and the SCTLR writes of set_reg_el1/el2/el3        *)

\* bits of the SCTLR reset value the model varies: the eight bits update_sctlr
\* sets or clears, SA0, and bits it does not touch (5, 26, 63)
SctlrInputBits == {0, 1, 2, 3, 4, 5, 12, 19, 25, 26, 44, 63}

\* update_sctlr: (sctlr | 1 << 44 | 1 << 12 | 1 << 2 | 1)
\*                & !(1 << 25 | 1 << 19 | 1 << 3 | 1 << 1)   (mmu.rs:528-542)
UpdateSctlrMutKeepsWxn(sctlr) == (sctlr \cup {44, 12, 2, 0}) \ {25, 3, 1}
update_sctlr(sctlr) == (sctlr \cup {44, 12, 2, 0}) \ {25, 19, 3, 1}

\* set_reg_el1: sctlr = update_sctlr(sctlr); sctlr &= !(1 << 4) (mmu.rs:955-962)
sctlr_el1_value(sctlr) == update_sctlr(sctlr) \ {4}

SctlrInit ==
    /\ sctlr_val \in SUBSET SctlrInputBits
    /\ sctlr_rd = Zero
    /\ sctlr_wr = "none"

\* set_reg_el2 / set_reg_el3: mrs, update_sctlr, msr (mmu.rs:722-726, 757-761)
set_sctlr_elx ==
    /\ sctlr_wr = "none"
    /\ sctlr_rd' = sctlr_val
    /\ sctlr_val' = update_sctlr(sctlr_val)
    /\ sctlr_wr' = "elx"

\* set_reg_el1: mrs, update_sctlr, clear SA0, msr (mmu.rs:955-963)
set_sctlr_el1 ==
    /\ sctlr_wr = "none"
    /\ sctlr_rd' = sctlr_val
    /\ sctlr_val' = sctlr_el1_value(sctlr_val)
    /\ sctlr_wr' = "el1"

----------------------------------------------------------------------------
(* Specifications                                                          *)

\* the state of a subsystem that is not running
SpinIdle == SpinInit /\ event = [c \in SCores |-> FALSE]
BootIdle ==
    /\ BootInit
    /\ free_mem_start = 1074266112
    /\ syms.ram_start = 1073741824
    /\ el = 3
    /\ mmfr = [parange |-> 1, tgran64 |-> 0]
TTIdle == TTInit /\ tt_lv2 = EmptyTable /\ tt_lv3 = EmptyTable
SctlrIdle == SctlrInit /\ sctlr_val = Zero
NoPanic == panicked = ""

\* the spinlock: SpinCores cores run SpinIters acquire/increment/release cycles
Init == SpinInit /\ BakeryInit /\ BootIdle /\ TTIdle /\ SctlrIdle /\ NoPanic
Next == \E c \in SCores : SpinStep(c)
Spec == Init /\ [][Next]_vars

\* the cores run all the time: no core stops between two of its instructions
SpecFair == Spec /\ \A c \in SCores : WF_vars(SpinStep(c))

\* the bakery lock: BakeryCores cores call BakeryTicket::lock on one ticket
InitBakery == SpinIdle /\ BakeryInit /\ BootIdle /\ TTIdle /\ SctlrIdle /\ NoPanic
NextBakery == \E c \in BCores : BakeryStep(c)
SpecBakery == InitBakery /\ [][NextBakery]_vars

\* boot: every core runs entry()
InitBoot == SpinIdle /\ BakeryInit /\ BootInit /\ TTIdle /\ SctlrIdle /\ NoPanic
NextBoot == \E c \in Cpus : BootStep(c)
SpecBoot == InitBoot /\ [][NextBoot]_vars

\* the master alone: the slaves have not been started
NextMaster ==
    \/ init_memory_map(Master) /\ BootFrame
    \/ entry_dispatch(Master) /\ BootFrame
    \/ init_master_early(Master) /\ BootFrame
    \/ mmu_init_check(Master) /\ BootFrame
    \/ init_firm(Master) /\ BootFrame
    \/ init_firm_set_reg(Master) /\ BootFrame
    \/ init_el1_ttbr0(Master) /\ BootFrame
    \/ init_el1_ttbr1(Master) /\ BootFrame
    \/ init_el1_set_reg(Master) /\ BootFrame
    \/ driver_init(Master) /\ BootFrame
    \/ init_master_match_el(Master) /\ BootFrame
    \/ init_master_psci(Master) /\ BootFrame
    \/ init_master_secure(Master) /\ BootFrame
    \/ init_master_boot_run(Master) /\ BootFrame
    \/ init_master_to_el1(Master) /\ BootFrame
SpecMaster == InitBoot /\ [][NextMaster]_vars

\* the no-cache pages: every core populates MEMORY_MAP and asks for its page
NextNoCache ==
    \E c \in Cpus :
        \/ init_memory_map(c) /\ BootFrame
        \/ get_no_cache(c) /\ BootFrame
SpecNoCache == InitBoot /\ [][NextNoCache]_vars

\* the SCTLR of one EL: any reset value, written once by set_reg_*
InitSctlr == SpinIdle /\ BakeryInit /\ BootIdle /\ TTIdle /\ SctlrInit /\ NoPanic
SctlrFrame == UNCHANGED <<spinVars, bakeryVars, bootVars, ttVars, panicked>>
NextSctlr ==
    \/ set_sctlr_elx /\ SctlrFrame
    \/ set_sctlr_el1 /\ SctlrFrame
SpecSctlr == InitSctlr /\ [][NextSctlr]_vars

\* one translation table: new, map and unmap with arguments from small sets
InitTT == SpinIdle /\ BakeryInit /\ BootIdle /\ TTInit /\ SctlrIdle /\ NoPanic
TTFrame == UNCHANGED <<spinVars, bakeryVars, bootVars, sctlrVars>>
NextTT ==
    \/ \E t \in TTConfigs : TTable_new(t) /\ TTFrame
    \/ \E va \in VAs, pa \in PAs, flag \in Flags : TTable_map(va, pa, flag) /\ TTFrame
    \/ \E va \in VAs : TTable_unmap(va) /\ TTFrame
SpecTT == InitTT /\ [][NextTT]_vars

----------------------------------------------------------------------------
(* Properties of the spinlock                                              *)

\* core c holds a SpinLock guard: SpinLock::new has returned and drop has
\* not yet stored 0
InCS(c) == spc[c] \in {"cs_load", "cs_store", "drop"}
\* C1: at most one core holds a guard of the lock at any time, and when the
\* cores have finished their cycles and every store has reached memory the
\* shared counter, incremented once per critical section, is the number of
\* cycles run (K * n for K cores running n cycles each).
C1_SpinMutualExclusion ==
    /\ \A c, d \in SCores : c # d => ~(InCS(c) /\ InCS(d))
    /\ (\A c \in SCores : spc[c] = "idle" /\ sb[c] = 0) => shared = iter

\* C24: the lock word is 0 or 1; it is nonzero whenever some core holds a
\* SpinLock guard and 0 whenever no core holds one: a waiter's test_and_set
\* never leaves the word at 1 without a holder.
C24_LockWordInvariant ==
    /\ lockvar \in {0, 1}
    /\ (\E c \in SCores : InCS(c)) => lockvar # 0
    /\ (\A c \in SCores : ~InCS(c)) => lockvar = 0

\* a waiter that read 0 in SpinLock::new and 1 in ldaxr is about to store 1
\* with its monitor armed while another core holds the guard
C24_Witness ==
    \E c, d \in SCores :
        /\ InCS(c)
        /\ spc[d] = "stlxr"
        /\ monitor[d]
        /\ rd[d] = 1
        /\ lockvar = 1

\* C16: the release is a release operation and the acquire an acquire
\* operation: a store of a critical section that is not yet visible to the
\* other cores belongs to a core that still holds the guard (it is visible
\* before the store of 0 is), so a core that has returned from SpinLock::new
\* sees every store of the previous holders.
C16_AcquireReleaseOrdering ==
    /\ \A c \in SCores : sb[c] # 0 => InCS(c)
    /\ \A c, d \in SCores : (c # d /\ InCS(c)) => sb[d] = 0

\* C4: with every core running (weak fairness of each core's steps), whenever
\* a core is inside SpinLock::new some core is, then or later, at the return
\* of SpinLock::new ("cs_load" is the position right after the return), and
\* a core waiting in WFE while the lock word is 0 leaves the WFE.
C4_SpinProgress ==
    /\ (\E c \in SCores : spc[c] \in {"load", "ldaxr", "stlxr", "wfe"}) ~> (\E c \in SCores : spc[c] = "cs_load")
    /\ \A c \in SCores : (spc[c] = "wfe" /\ lockvar = 0) ~> (spc[c] # "wfe")

\* a core waits in WFE with its event register clear while the holder has
\* stored 0 and not yet sent the event
C4_Witness ==
    \E c, d \in SCores :
        spc[c] = "wfe" /\ ~event[c] /\ lockvar = 0 /\ spc[d] = "sev"

----------------------------------------------------------------------------
(* Properties of the bakery lock                                           *)

\* C3: a core that calls BakeryTicket::lock takes one ticket, scans the
\* NUM_CPU entries once and then returns: it never takes a second ticket in
\* one call, and once its scan is complete it is no longer inside
\* BakeryLock::new.
C3_AcquireReturns ==
    \A c \in BCores :
        /\ taken[c] <= 1
        /\ scans[c] >= 1 => bpc[c] = "call"

\* C23: each time core c takes a ticket it writes number[c] = 1 + the
\* maximum of the number[i] it read over the NUM_CPU cores, so the ticket is
\* nonzero and greater than every ticket it observed; a core takes exactly
\* one ticket per call of BakeryTicket::lock, and number[c] keeps that value
\* until the guard is dropped (no guard is dropped in these behaviours).
C23_TicketValues ==
    /\ [](\A c \in BCores :
            /\ bpc[c] = "clear_entering" =>
                  number[c] = 1 + bmax[c] /\ number[c] # 0
            /\ taken[c] <= 1)
    /\ [][\A c \in BCores : number[c] # 0 => number'[c] = number[c]]_vars

----------------------------------------------------------------------------
(* Properties of boot                                                      *)

\* C5: no slave core has executed mmu::set_regs while the master has not
\* yet built the firmware, TTBR0 and TTBR1 tables.
C5_TablesBuiltBeforeSlaves ==
    \A c \in Cpus : (c # Master /\ (ttbr[c] # {} \/ sctlr_m[c] # {})) => built = Tables

\* C6: MEMORY_MAP is written once, by the master only: no slave core has
\* written it, the master has written it at most once, and not after it
\* enabled the MMU.
C6_MemoryMapWrittenOnceByMaster ==
    /\ \A c \in Cpus : c # Master => mm_writes[c] = 0
    /\ mm_writes[Master] <= 1
    /\ sctlr_m[Master] # {} => mm_writes[Master] = 1

\* C7: once init_memory_map has run, the regions lie back to back from
\* free_mem_start in the order no_cache (NUM_CPU pages), tt_firm (9 pages),
\* tt_el1_ttbr0 (9 pages), tt_el1_ttbr1 (5 pages), EL1 stacks (32 pages per
\* CPU), EL0 stacks (32 pages per CPU), EL0 heap (1024 pages); and for
\* free_mem_start = 0x40080000 the addresses are the ones of the layout
\* table (0x400C0000, 0x40150000, 0x401E0000, 0x40230000, 0x40A30000,
\* 0x41230000, 0x45230000).
C7_PlannerLayout ==
    (\E c \in Cpus : mm_writes[c] > 0) =>
        LET M == MEMORY_MAP
        IN  /\ M.no_cache_start = free_mem_start
            /\ M.no_cache_end = M.no_cache_start + NUM_CPU * 65536
            /\ M.tt_firm_start = M.no_cache_end
            /\ M.tt_firm_end = M.tt_firm_start + 9 * 65536
            /\ M.tt_el1_ttbr0_start = M.tt_firm_end
            /\ M.tt_el1_ttbr0_end = M.tt_el1_ttbr0_start + 9 * 65536
            /\ M.tt_el1_ttbr1_start = M.tt_el1_ttbr0_end
            /\ M.tt_el1_ttbr1_end = M.tt_el1_ttbr1_start + 5 * 65536
            /\ M.stack_el1_end = M.tt_el1_ttbr1_end
            /\ M.stack_el1_start = M.stack_el1_end + NUM_CPU * 32 * 65536
            /\ M.stack_el0_end = M.stack_el1_start
            /\ M.stack_el0_start = M.stack_el0_end + NUM_CPU * 32 * 65536
            /\ M.el0_heap_start = M.stack_el0_start
            /\ M.el0_heap_end = M.el0_heap_start + 1024 * 65536
            /\ free_mem_start = 1074266112 =>
                  /\ M.no_cache_end = 1074528256
                  /\ M.tt_firm_end = 1075118080
                  /\ M.tt_el1_ttbr0_end = 1075707904
                  /\ M.tt_el1_ttbr1_end = 1076035584
                  /\ M.stack_el1_end = 1076035584
                  /\ M.stack_el1_start = 1084424192
                  /\ M.stack_el0_end = 1084424192
                  /\ M.stack_el0_start = 1092812800
                  /\ M.el0_heap_start = 1092812800
                  /\ M.el0_heap_end = 1159921664

\* the map has been populated for free_mem_start = 0x40080000
C7_Witness ==
    /\ free_mem_start = 1074266112
    /\ mm_writes[Master] = 1
    /\ MEMORY_MAP.no_cache_start = 1074266112
    /\ MEMORY_MAP.el0_heap_end > MEMORY_MAP.el0_heap_start

\* the address fields of the map
AddrFields ==
    {MEMORY_MAP.no_cache_start, MEMORY_MAP.no_cache_end,
     MEMORY_MAP.tt_firm_start, MEMORY_MAP.tt_firm_end,
     MEMORY_MAP.tt_el1_ttbr0_start, MEMORY_MAP.tt_el1_ttbr0_end,
     MEMORY_MAP.tt_el1_ttbr1_start, MEMORY_MAP.tt_el1_ttbr1_end,
     MEMORY_MAP.stack_el1_end, MEMORY_MAP.stack_el1_start,
     MEMORY_MAP.stack_el0_end, MEMORY_MAP.stack_el0_start,
     MEMORY_MAP.el0_heap_start, MEMORY_MAP.el0_heap_end,
     MEMORY_MAP.rom_start, MEMORY_MAP.rom_end,
     MEMORY_MAP.sram_start, MEMORY_MAP.sram_end}

\* C21: after Addr::init with a 64 KiB-aligned free_mem_start every *_start
\* and *_end field of the map (no_cache, the three table regions, both stack
\* regions, the EL0 heap, and the ROM and SRAM ranges) is a multiple of
\* 0x10000.
C21_BoundariesAligned ==
    ((\E c \in Cpus : mm_writes[c] > 0) /\ free_mem_start % 65536 = 0) =>
        \A a \in AddrFields : a % 65536 = 0

\* C17: Addr::init is idempotent and deterministic: once a core has run it,
\* running it again on the map it left (same free_mem_start, NUM_CPU and
\* platform constants) gives the same value of every field, and no later run
\* by any core changes a field of MEMORY_MAP.
C17_PlannerIdempotent ==
    /\ []((\E c \in Cpus : mm_writes[c] > 0) =>
            Addr_init(MEMORY_MAP, free_mem_start) = MEMORY_MAP)
    /\ [][(\E c \in Cpus : mm_writes[c] > 0) => MEMORY_MAP' = MEMORY_MAP]_vars

\* three cores have run Addr::init on the same MEMORY_MAP
C17_Witness ==
    /\ Cardinality({c \in Cpus : mm_writes[c] > 0}) = 3
    /\ MEMORY_MAP.no_cache_start = free_mem_start
    /\ MEMORY_MAP.stack_size > 0

\* C18: get_no_cache on core c returns no_cache_start + 64 KiB * c; the
\* 64 KiB slots returned to two distinct cores are disjoint, and every slot
\* lies inside [no_cache_start, no_cache_end).
C18_NoCacheSlotsDisjoint ==
    \A c \in Cpus :
        no_cache_ptr[c] # 0 =>
            /\ no_cache_ptr[c] = MEMORY_MAP.no_cache_start + 65536 * c
            /\ MEMORY_MAP.no_cache_start <= no_cache_ptr[c]
            /\ no_cache_ptr[c] + 65536 <= MEMORY_MAP.no_cache_end
            /\ \A d \in Cpus :
                  (d # c /\ no_cache_ptr[d] # 0) =>
                      \/ no_cache_ptr[c] + 65536 <= no_cache_ptr[d]
                      \/ no_cache_ptr[d] + 65536 <= no_cache_ptr[c]

\* every core holds its slot; the last core's slot ends at no_cache_end
C18_Witness ==
    /\ \A c \in Cpus : no_cache_ptr[c] # 0
    /\ no_cache_ptr[NUM_CPU - 1] + 65536 = MEMORY_MAP.no_cache_end

\* the level 3 entry that table n holds for the address a
TableEntry(n, a) == L3Entry(tables[n].log, SlotN(a))

\* mmu::init has finished on the master: init_el1 has run set_reg_el1
MmuInitDone == 1 \in sctlr_m[Master]

\* the 64 KiB pages of [lo, hi)
PagesOf(lo, hi) == {a \in {lo + k * 65536 : k \in 0..((hi - lo) \div 65536)} : a < hi}

FirmBuilt == "firm" \in built

\* the guard pages of the firmware stack
FirmGuards == {syms.stack_firm_end + c * MEMORY_MAP.stack_size : c \in Cpus}

\* C19: in the firmware table built by init_firm every page of .data
\* [__data_start, __bss_start), of .bss [__bss_start, __stack_firm_end) and
\* of the firmware stack other than the guard pages is mapped read-write for
\* the higher EL with no access from EL0 (AP[7:6] = 0b00), with XN and PXN
\* set and AttrIdx = normal memory.
C19_DataBssStackNoEl0Access ==
    FirmBuilt =>
        \A a \in PagesOf(syms.data_start, syms.bss_start)
                 \cup PagesOf(syms.bss_start, syms.stack_firm_end)
                 \cup (PagesOf(syms.stack_firm_end, syms.stack_firm_start) \ FirmGuards) :
            LET e == TableEntry("firm", a)
            IN  /\ {0, 1} \subseteq e
                /\ e \cap {6, 7} = {}
                /\ {53, 54} \subseteq e
                /\ e \cap {2, 3, 4} = {}

\* init_el2 / init_el3 has returned on the master
FirmDone == FirmBuilt /\ sctlr_m[Master] # {}

\* C20: after init_el2 or init_el3 has returned, every 64 KiB page of
\* [rom_start, rom_end) is identity-mapped in the firmware table with
\* AP[7:6] = 0b10 (read-only, no EL0 access) and AttrIdx = normal memory,
\* at whichever EL the table was built.
C20_RomReadOnly ==
    FirmDone =>
        \A a \in PagesOf(MEMORY_MAP.rom_start, MEMORY_MAP.rom_end) :
            LET e == TableEntry("firm", a)
            IN  /\ {0, 1} \subseteq e
                /\ e \cap (16..47) = Bits(a) \cap (16..47)
                /\ e \cap {6, 7} = {7}
                /\ e \cap {2, 3, 4} = {}

\* the A64 layout: free_mem_start = 0x40080000 and every linker section
\* symbol inside [0x40000000, 0x40080000]
A64Layout ==
    /\ free_mem_start = 1074266112
    /\ \A a \in {syms.ram_start, syms.data_start, syms.bss_start,
                  syms.stack_firm_end, syms.stack_firm_start} :
          1073741824 <= a /\ a <= 1074266112

\* C29: on the A64 layout every map and unmap call of init_firm, init_el2
\* and init_el1 has a level 2 index below the N3 of its table (8 for the
\* firmware and TTBR0 tables, 4 for the TTBR1 table): no table construction
\* ends in a "memory map error" or "memory unmap error" panic, every table
\* the master has started is complete, and mmu::init completes.
C29_NoOutOfRangePanic ==
    A64Layout =>
        /\ panicked \notin {"memory map error", "memory unmap error"}
        /\ \A n \in Tables :
              tables[n].tt # NoTable =>
                  /\ n \in built
                  /\ tables[n].tt.num_lv3 = (IF n = "ttbr1" THEN 4 ELSE 8)
                  /\ \A i \in 1..Len(tables[n].log) :
                        \A a \in Pages(tables[n].log[i]) :
                            (a \div 536870912) % 8192 < tables[n].tt.num_lv3
        /\ pc[Master] \in {"driver_init", "match_el", "psci_init", "init_secure",
                            "boot_run", "to_el1", "el1"} => built = Tables

\* mmu::init has completed on the A64 layout; the highest address mapped,
\* the last page of the EL0 heap, has level 2 index 2
C29_Witness ==
    /\ A64Layout
    /\ MmuInitDone
    /\ built = Tables
    /\ panicked = ""
    /\ TableEntry("ttbr0", MEMORY_MAP.el0_heap_end - 65536) # Zero
    /\ ((MEMORY_MAP.el0_heap_end - 65536) \div 536870912) % 8192 = 2

\* a level 3 entry e in the slot of the address a: type bits 0b11, AF, one
\* AttrIdx out of 0, 1, 2 in bits [4:2], output address bits = page of a
WellFormed(e, a) ==
    /\ {0, 1, 10} \subseteq e
    /\ e \cap {2, 3, 4} \in {{}, {2}, {3}}
    /\ e \cap (16..47) = Bits(a) \cap (16..47)

\* C25: at every point during and after mmu::init every nonzero level 3
\* entry of the firmware, TTBR0 and TTBR1 tables has type bits 0b11 and AF
\* set, one AttrIdx value out of {0, 1, 2}, and output address bits equal to
\* the 64 KiB page number of the VA of its slot: this holds for every entry
\* a map call has written and for every entry the tables hold.
C25_EntriesWellFormed ==
    \A n \in Tables :
        \A i \in 1..Len(tables[n].log) :
            \A a \in Pages(tables[n].log[i]) :
                /\ tables[n].log[i].op = "map" =>
                      WellFormed(MapEntry(Bits(a), tables[n].log[i].flag), a)
                /\ TableEntry(n, a) # Zero => WellFormed(TableEntry(n, a), a)

\* the three tables hold entries of the three AttrIdx values
C25_Witness ==
    /\ built = Tables
    /\ TableEntry("firm", DEVICE_MEM_START) \cap {2, 3, 4} = {2}
    /\ TableEntry("ttbr1", MEMORY_MAP.tt_el1_ttbr1_start) \cap {2, 3, 4} = {3}
    /\ TableEntry("ttbr0", MEMORY_MAP.el0_heap_start) \cap {2, 3, 4} = {}
    /\ TableEntry("ttbr0", MEMORY_MAP.el0_heap_start) # Zero

\* the addresses init_firm passes to map and unmap, and page 0
FirmPages ==
    {0} \cup UNION {Pages(InitFirmOps(MEMORY_MAP, syms)[i]) :
                       i \in 1..Len(InitFirmOps(MEMORY_MAP, syms))}

\* the firmware table as init_firm leaves it
InitFirmLog ==
    RunOps([addr |-> MEMORY_MAP.tt_firm_start,
            num_lv2 |-> FIRM_LV2_TABLE_NUM, num_lv3 |-> FIRM_LV3_TABLE_NUM],
           InitFirmOps(MEMORY_MAP, syms), << >>).log

\* C26: the firmware table of init_el2 and the one of init_el3 differ only
\* in the level 3 slot of VA 0: both have the level 2 entries of TTable::new
\* and, in every slot but that of VA 0, the level 3 entry init_firm left; the
\* slot of VA 0 holds the identity mapping of PA 0 at EL2 and what init_firm
\* left there at EL3.
C26_El2WorkaroundOnlyDifference ==
    FirmBuilt =>
        /\ tables["firm"].lv2 = NewLv2(tables["firm"].tt)
        /\ \A a \in FirmPages \ {0} :
              TableEntry("firm", a) = L3Entry(InitFirmLog, SlotN(a))
        /\ \A j \in 1..Len(tables["firm"].log) :
              Pages(tables["firm"].log[j]) \subseteq FirmPages
        /\ el = 2 =>
              /\ {0, 1} \subseteq TableEntry("firm", 0)
              /\ TableEntry("firm", 0) \cap (16..47) = {}
        /\ el # 2 => TableEntry("firm", 0) = L3Entry(InitFirmLog, SlotN(0))

\* init_el2 has replaced the entry init_firm wrote for page 0
C26_Witness ==
    /\ FirmBuilt
    /\ el = 2
    /\ L3Entry(InitFirmLog, SlotN(0)) # Zero
    /\ TableEntry("firm", 0) # L3Entry(InitFirmLog, SlotN(0))
    /\ TableEntry("firm", 65536) = L3Entry(InitFirmLog, SlotN(65536))

\* core c has called f (or printed the line f)
InCalls(c, f) == \E i \in 1..Len(calls[c]) : calls[c][i] = f

\* the master is past the two feature checks of mmu::init
PastMmuCheck == pc[Master] \notin {"entry", "core_pos", "init_master", "mmu_init"}

\* C12: if ID_AA64MMFR0_EL1[3:0] is 0 or ID_AA64MMFR0_EL1[27:24] is not 0,
\* mmu::init returns None (init_master panics with "failed to initialize
\* MMU") after printing the ERROR line of the check that failed, and it has
\* written no entry of any translation table and none of MAIR, TCR, TTBRn
\* and SCTLR.
C12_FeatureDetectFailure ==
    (PastMmuCheck /\ (mmfr.parange = 0 \/ mmfr.tgran64 # 0)) =>
        /\ panicked = "failed to initialize MMU"
        /\ mmfr.parange = 0 =>
              InCalls(Master, "ERROR: 36 bit address space not supported")
        /\ (mmfr.parange # 0 /\ mmfr.tgran64 # 0) =>
              InCalls(Master, "ERROR: 64KiB granule not supported")
        /\ \A n \in Tables :
              tables[n].tt = NoTable /\ tables[n].lv2 = EmptyTable /\ tables[n].log = << >>
        /\ mair_tcr[Master] = {}
        /\ ttbr[Master] = {}
        /\ sctlr_m[Master] = {}

\* the master has failed the granule check
C12_Witness ==
    /\ mmfr.parange # 0
    /\ mmfr.tgran64 # 0
    /\ pc[Master] = "halt"
    /\ InCalls(Master, "ERROR: 64KiB granule not supported")

\* what a core has done so far
CoreState(c) ==
    <<pc[c], mm_writes[c], ttbr[c], sctlr_m[c], mair_tcr[c], calls[c], no_cache_ptr[c]>>

\* C13: when mmu::init returns None on the master, the master panics and
\* halts from then on: it has not executed and never executes driver::init,
\* psci::init, context::init_secure, el3_to_el1 or el2_to_el1, a halted
\* master takes no further step, and the step of the panic changes the
\* state of no slave core.
C13_PanicHaltsMaster ==
    /\ [](panicked = "failed to initialize MMU" =>
            /\ pc[Master] = "halt"
            /\ \A f \in {"driver::init", "psci::init", "context::init_secure",
                          "el3::el3_to_el1", "el2::el2_to_el1"} : ~InCalls(Master, f))
    /\ [][pc[Master] = "halt" => CoreState(Master)' = CoreState(Master)]_vars
    /\ [][(panicked = "" /\ panicked' = "failed to initialize MMU") =>
            \A c \in Cpus \ {Master} : CoreState(c)' = CoreState(c)]_vars

\* the master has panicked in init_master while a slave is still on its way
\* through init_slave and another slave has finished it
C13_Witness ==
    /\ panicked = "failed to initialize MMU"
    /\ InCalls(Master, "kernel panic!")
    /\ \E c, d \in Cpus \ {Master} : pc[c] = "set_regs" /\ pc[d] = "forever"

\* f was called by core c, and before g if g was called
CalledBefore(c, f, g) ==
    \A j \in 1..Len(calls[c]) :
        calls[c][j] = g => \E i \in 1..(j - 1) : calls[c][i] = f

\* C14: on the master the steps happen in the order populate the address
\* map, mmu::init, driver::init, EL dispatch; el3_to_el1 is called only at
\* EL3 and only after psci::init and context::init_secure; el2_to_el1 is
\* called only at EL2; and a master that entered at EL1 or EL0 never calls a
\* transition and, once it has stopped, has stopped in a panic.
C14_BootOrderAndDispatch ==
    /\ CalledBefore(Master, "mmu::init_memory_map", "mmu::init")
    /\ CalledBefore(Master, "mmu::init", "driver::init")
    /\ \A f \in {"psci::init", "print_msg Warning", "el3::el3_to_el1", "el2::el2_to_el1"} :
          CalledBefore(Master, "driver::init", f)
    /\ InCalls(Master, "el3::el3_to_el1") => el = 3
    /\ CalledBefore(Master, "psci::init", "el3::el3_to_el1")
    /\ CalledBefore(Master, "context::init_secure", "el3::el3_to_el1")
    /\ InCalls(Master, "el2::el2_to_el1") => el = 2
    /\ el \notin {2, 3} =>
          /\ ~InCalls(Master, "el3::el3_to_el1")
          /\ ~InCalls(Master, "el2::el2_to_el1")
          /\ pc[Master] \in {"halt", "exception"} => InCalls(Master, "kernel panic!")

----------------------------------------------------------------------------
(* Properties of the SCTLR update                                          *)

\* C27: for every input s, update_sctlr(s) has bits 0 (M), 2 (C), 12 (I) and
\* 44 (DSSBS) set, bits 1 (A), 3 (SA), 19 (WXN) and 25 (EE) clear and every
\* other bit as in s; the value written to SCTLR_EL1 has bit 4 (SA0) clear
\* as well and is otherwise the same.
C27_SctlrUpdate ==
    sctlr_wr # "none" =>
        /\ {0, 2, 12, 44} \subseteq sctlr_val
        /\ sctlr_val \cap {1, 3, 19, 25} = {}
        /\ sctlr_wr = "el1" => 4 \notin sctlr_val
        /\ \A b \in 0..63 :
              b \notin ({0, 2, 12, 44, 1, 3, 19, 25}
                           \cup (IF sctlr_wr = "el1" THEN {4} ELSE {})) =>
                  (b \in sctlr_val <=> b \in sctlr_rd)

\* SCTLR_EL1 has been written from a reset value with A, SA, SA0, WXN and EE
\* set and M, C, I and DSSBS clear; bit 63 was kept
C27_Witness ==
    /\ sctlr_wr = "el1"
    /\ sctlr_rd = {1, 3, 4, 19, 25, 63}
    /\ sctlr_val = {0, 2, 12, 44, 63}

----------------------------------------------------------------------------
(* Properties of the translation tables                                    *)

\* C8: right after TTable::new(base, N2, N3) every level 3 entry is 0, L2[i]
\* is (base + N2 * 64 KiB + i * 64 KiB) | 0b11 for every i below N3 and
\* below 8192 * N2, and L2[i] is 0 for every i from N3 to 8192 * N2 - 1.
C8_NewTable ==
    last.op = "new" =>
        /\ DOMAIN tt_lv3 = {}
        /\ \A i \in 0..(8192 * tt.num_lv2 - 1) :
              IF i < tt.num_lv3
              THEN At(tt_lv2, i) =
                      Bits(tt.addr + tt.num_lv2 * 65536 + i * 65536) \cup {0, 1}
              ELSE At(tt_lv2, i) = Zero

\* TTable::new has built a table with level 2 entries over memory whose
\* level 3 part was not zero before
C8_Witness ==
    /\ last.op = "new"
    /\ tt.num_lv3 = 8
    /\ At(tt_lv2, 7) # Zero
    /\ At(tt_lv2, 8) = Zero

\* C9: after map(VA, PA, A) with l2_idx(VA) < N3 the level 3 entry at index
\* l2_idx(VA) * 8192 + ((VA >> 16) & 8191) is (PA & ~0xFFFF) | A, and after
\* unmap(VA) it is 0; map(0x40000000, 0x40000000, 0x703) leaves 0x40000703
\* at index 2 * 8192 + 0.
C9_MapUnmapRoundTrip ==
    LET l2 == Field(last.va, 29, 13)
        l3 == Field(last.va, 16, 13)
        slot == At(tt_lv3, l2 * 8192 + l3)
    IN  /\ (last.op = "map" /\ l2 < tt.num_lv3) =>
              slot = {b \in last.pa : b >= 16} \cup last.flag
        /\ (last.op = "unmap" /\ l2 < tt.num_lv3) => slot = Zero
        /\ (/\ last.op = "map"
            /\ last.va = Bits(1073741824)
            /\ last.pa = Bits(1073741824)
            /\ last.flag = {0, 1, 8, 9, 10}
            /\ tt.num_lv3 > 2) => At(tt_lv3, 16384) = Bits(1073743619)

\* an entry written by map has been cleared by unmap
C9_Witness ==
    /\ last.op = "unmap"
    /\ last.before # Zero
    /\ panicked = ""
    /\ At(tt_lv3, Lv3Slot(last.va)) = Zero

\* C28: a successful map(VA, PA, A) or unmap(VA) changes no level 3 entry
\* but the one at index ((VA >> 29) & 8191) * 8192 + ((VA >> 16) & 8191);
\* every other level 3 entry and every level 2 entry of the table, and all
\* entries of the other tables, keep their values.
C28_MapUnmapFrame ==
    [][(last'.op \in {"map", "unmap"} /\ panicked' = "") =>
          LET idx == Field(last'.va, 29, 13) * 8192 + Field(last'.va, 16, 13)
          IN  /\ tt' = tt
              /\ tt_lv2' = tt_lv2
              /\ \A i \in (DOMAIN tt_lv3 \cup DOMAIN tt_lv3') \ {idx} :
                    At(tt_lv3', i) = At(tt_lv3, i)
              /\ tables' = tables]_vars

\* map has written a second entry into a table that holds another one
C28_Witness ==
    /\ last.op = "map"
    /\ panicked = ""
    /\ last.before = Zero
    /\ Cardinality(DOMAIN tt_lv3) = 2
    /\ DOMAIN tt_lv2 # {}

\* C10: a map or an unmap of a VA with l2_idx(VA) >= N3 panics and leaves
\* every level 2 and level 3 entry as it was.
C10_OutOfRangeIsFatal ==
    [][(/\ last'.op \in {"map", "unmap"}
        /\ Field(last'.va, 29, 13) >= tt.num_lv3)
       => /\ panicked' = (IF last'.op = "map" THEN "memory map error"
                                               ELSE "memory unmap error")
          /\ tt_lv2' = tt_lv2
          /\ tt_lv3' = tt_lv3]_vars

\* unmap of a VA outside the table has panicked on a table that holds
\* mapped entries
C10_Witness ==
    /\ panicked = "memory unmap error"
    /\ last.op = "unmap"
    /\ Field(last.va, 29, 13) >= tt.num_lv3
    /\ tt_lv3 # EmptyTable

====
